---- MODULE Spec2Model ----
(***************************************************************************)
(* caltib: Tibetan lunisolar calendar engines.                             *)
(*                                                                         *)
(* The library is a set of pure functions over immutable engines.  The     *)
(* state of the model is the engine in use together with the last call     *)
(* made on it (operation, arguments, result), and the process-wide engine  *)
(* registry of the public API.                                             *)
(*                                                                         *)
(* Python's Fraction is exact.  TLC integers are 32 bit, so a Fraction is  *)
(* carried as a mixed number [w, p, q] = w + p/q with 0 <= p < q, which    *)
(* keeps Julian-day magnitudes (2.4e6) apart from the fine denominators.   *)
(***************************************************************************)
EXTENDS Integers, Sequences, FiniteSets, TLC

VARIABLES engine, mp, op, args, ret, registry

vars == <<engine, mp, op, args, ret, registry>>

-----------------------------------------------------------------------------
(* Exact arithmetic (fractions.Fraction)                                   *)

\* A Python local is bound to a value once; Let(v, F) evaluates v once and
\* hands the value to F, where a LET definition is re-evaluated at each use.
Let(v, F(_)) == CHOOSE r \in {F(x) : x \in {v}} : TRUE

RECURSIVE Gcd(_, _)
Gcd(a, b) == IF b = 0 THEN a ELSE Let(a % b, LAMBDA r : Gcd(b, r))

MInt(k) == [w |-> k, p |-> 0, q |-> 1]

MNorm(a) ==
    Let(a, LAMBDA v :
        Let(Gcd(v.p, v.q), LAMBDA g :
            [w |-> v.w, p |-> v.p \div g, q |-> v.q \div g]))

MFrac(n, d) == MNorm([w |-> n \div d, p |-> n % d, q |-> d])

\* the sum over the common denominator L, carrying without overflow
MAddOver(a, b, L) ==
    Let(<<a.p * (L \div a.q), b.p * (L \div b.q)>>, LAMBDA pp :
        IF pp[1] >= L - pp[2]
        THEN MNorm([w |-> a.w + b.w + 1, p |-> pp[1] - (L - pp[2]), q |-> L])
        ELSE MNorm([w |-> a.w + b.w, p |-> pp[1] + pp[2], q |-> L]))

MAdd(a, b) ==
    Let(<<a, b>>, LAMBDA v :
        Let((v[1].q \div Gcd(v[1].q, v[2].q)) * v[2].q, LAMBDA L :
            MAddOver(v[1], v[2], L)))

MNeg(a) ==
    Let(a, LAMBDA v :
        IF v.p = 0 THEN [w |-> 0 - v.w, p |-> 0, q |-> v.q]
        ELSE [w |-> 0 - v.w - 1, p |-> v.q - v.p, q |-> v.q])

MSub(a, b) == MAdd(a, MNeg(b))

\* Fraction(k, 1) * a
MScale(k, a) ==
    Let(<<k, a>>, LAMBDA v :
        Let(v[1] * v[2].p, LAMBDA kp :
            MNorm([w |-> v[1] * v[2].w + (kp \div v[2].q),
                   p |-> kp % v[2].q, q |-> v[2].q])))

\* Fraction(k, 1) * a for k >= 0 by doubling, for products beyond 32 bits
RECURSIVE MScaleBig(_, _)
MScaleBig(k, a) ==
    IF k = 0 THEN MInt(0)
    ELSE Let(MScaleBig(k \div 2, a),
             LAMBDA h : IF k % 2 = 1 THEN MAdd(MAdd(h, h), a) ELSE MAdd(h, h))

\* a / k for an integer k > 0
MDivInt(a, k) ==
    Let(<<a, k>>, LAMBDA v :
        Let(<<v[1].w * v[1].q + v[1].p, v[1].q * v[2]>>, LAMBDA nd :
            MNorm([w |-> nd[1] \div nd[2], p |-> nd[1] % nd[2], q |-> nd[2]])))

MEq(a, b) == MNorm(a) = MNorm(b)

MLt(a, b) ==
    Let(<<a, b>>, LAMBDA v :
        \/ v[1].w < v[2].w
        \/ /\ v[1].w = v[2].w
           /\ Let((v[1].q \div Gcd(v[1].q, v[2].q)) * v[2].q, LAMBDA L :
                  v[1].p * (L \div v[1].q) < v[2].p * (L \div v[2].q)))

MLe(a, b) == ~MLt(b, a)

\* math.floor(x), and x.numerator // x.denominator
MFloor(a) == a.w

\* int(x): truncation toward zero
MTrunc(a) == Let(a, LAMBDA v : IF v.w < 0 /\ v.p # 0 THEN v.w + 1 ELSE v.w)

\* x > k and x < k for an integer k
MGtInt(a, k) == Let(a, LAMBDA v : v.w > k \/ (v.w = k /\ v.p # 0))
MLtInt(a, k) == a.w < k

frac_turn(x) == Let(x, LAMBDA v : [w |-> 0, p |-> v.p, q |-> v.q])

\* numerator of a over its own denominator
MNum(a) == a.w * a.q + a.p

\* a * b
MMul(a, b) ==
    Let(<<a, b>>, LAMBDA v : MFrac(MNum(v[1]) * MNum(v[2]), v[1].q * v[2].q))

\* a / b for b # 0
MDiv(a, b) ==
    Let(<<a, b>>, LAMBDA v :
        IF MNum(v[2]) > 0
        THEN MFrac(MNum(v[1]) * v[2].q, v[1].q * MNum(v[2]))
        ELSE MFrac((0 - MNum(v[1])) * v[2].q, v[1].q * (0 - MNum(v[2]))))

-----------------------------------------------------------------------------
(* OddPeriodicTable (engines/astro/sin_tables.py)                          *)

MOON_TAB_QUARTER == <<0, 5, 10, 15, 19, 22, 24, 25>>
SUN_TAB_QUARTER  == <<0, 6, 10, 11>>
SINE_TAB_QUARTER == <<0, 228, 444, 638, 801, 923, 998, 1024>>

\* quarter has length N/4 + 1
TableN(quarter) == 4 * (Len(quarter) - 1)

\* quarter[i] of the 0-based Python tuple
Q0(quarter, i) == quarter[i + 1]

\* u reduced into [0, N): u0 = u - N * floor(u / N), then the u0 < 0 guard
reduce_u(N, u) ==
    Let([w |-> u.w - N * (u.w \div N), p |-> u.p, q |-> u.q], LAMBDA u0 :
        IF MLtInt(u0, 0)
        THEN MAdd(u0, MInt(N * ((MFloor(MNeg(u0)) \div N) + 1)))
        ELSE u0)

\* the reflections with the sign of the second half-wave dropped
reflect_u_nosign(N, u0) ==
    Let(IF MGtInt(u0, N \div 2) THEN <<1, MSub(MInt(N), u0)>> ELSE <<1, u0>>,
        LAMBDA h :
            IF MGtInt(h[2], N \div 4)
            THEN <<h[1], MSub(MInt(N \div 2), h[2])>>
            ELSE h)

\* the half-wave and quarter-wave reflections: <<sign, u0>>
reflect_u(N, u0) ==
    Let(IF MGtInt(u0, N \div 2) THEN <<0 - 1, MSub(MInt(N), u0)>> ELSE <<1, u0>>,
        LAMBDA h :
            IF MGtInt(h[2], N \div 4)
            THEN <<h[1], MSub(MInt(N \div 2), h[2])>>
            ELSE h)

\* linear interpolation between the nodes i and i + 1 of the quarter table
interp_u(quarter, N, sign, u0) ==
    Let(MTrunc(u0), LAMBDA i :
        IF i >= N \div 4
        THEN MInt(sign * Q0(quarter, N \div 4))
        ELSE MScale(sign,
                 MAdd(MInt(Q0(quarter, i)),
                      MScale(Q0(quarter, i + 1) - Q0(quarter, i),
                             [w |-> 0, p |-> u0.p, q |-> u0.q]))))

eval_u(quarter, u) ==
    Let(<<TableN(quarter), u>>, LAMBDA a :
        Let(reduce_u(a[1], a[2]), LAMBDA u0 :
            Let(reflect_u(a[1], u0), LAMBDA su :
                interp_u(quarter, a[1], su[1], su[2]))))

eval_turn(quarter, x_turn) ==
    eval_u(quarter, MScale(TableN(quarter), frac_turn(x_turn)))

\* the interval search of asin_turn that stops at the first interval
bisect_first(quarter, y, lo, hi) == 0

\* the interval search of asin_turn: quarter[lo] <= y < quarter[hi], 0-based
RECURSIVE bisect(_, _, _, _)
bisect(quarter, y, lo, hi) ==
    IF lo + 1 < hi
    THEN Let((lo + hi) \div 2, LAMBDA mid :
             IF MLe(MInt(Q0(quarter, mid)), y)
             THEN bisect(quarter, y, mid, hi)
             ELSE bisect(quarter, y, lo, mid))
    ELSE lo

\* OddPeriodicTable.asin_turn, y in table units
RECURSIVE asin_turn(_, _)
asin_turn(quarter, y) ==
    IF MLtInt(y, 0) THEN MNeg(asin_turn(quarter, MNeg(y)))
    ELSE IF MLe(MInt(quarter[Len(quarter)]), y) THEN MFrac(1, 4)
    ELSE Let(bisect(quarter, y, 0, Len(quarter) - 1), LAMBDA lo :
             Let(MDivInt(MSub(y, MInt(Q0(quarter, lo))),
                         Q0(quarter, lo + 1) - Q0(quarter, lo)), LAMBDA t :
                 MDivInt(MAdd(MInt(lo), t), TableN(quarter))))

-----------------------------------------------------------------------------
(* Shipped traditional specifications (engines/specs.py)                   *)

JD_J2000 == 2451545

P_TIB == 65
Q_TIB == 67
P_NEW == 1336
Q_NEW == 1377

M1_TIB == MFrac(167025, 5656)
S1_TIB == MFrac(65, 804)
A1_TIB == MFrac(253, 3528)
M1_KAR == MFrac(10631, 360)
S1_KAR == MFrac(1277, 15795)
A1_KAR == MFrac(253, 3528)
A2_STD == MFrac(1, 28)

\* Fraction(1729968333, 707)
PHUGPA_E1987_M0 == [w |-> 2446914, p |-> 135, q |-> 707]
PHUGPA_E1987_S0 == MInt(0)
\* Fraction(18307100485903, 7635600)
TSURPHU_E1852_M0 == [w |-> 2397598, p |-> 1197103, q |-> 7635600]
TSURPHU_E1852_S0 == MFrac(23, 27135)
\* Fraction(6671924839, 2828)
MONGOL_E1747_M0 == [w |-> 2359237, p |-> 2603, q |-> 2828]
MONGOL_E1747_S0 == MFrac(397, 402)
\* Fraction(1669797601, 707)
BHUTAN_E1754_M0 == [w |-> 2361807, p |-> 52, q |-> 707]
BHUTAN_E1754_S0 == MFrac(1, 67)
\* Fraction(4031063, 2)
KARANA_E806_M0 == [w |-> 2015531, p |-> 1, q |-> 2]
KARANA_E806_S0 == MFrac(809, 810)

\* round((float(m0) - 2451550.09766) / 29.530588861), evaluated per epoch
k_from_epoch_jd(name) ==
    CASE name = "phugpa"  -> 0 - 157
      [] name = "tsurphu" -> 0 - 1827
      [] name = "mongol"  -> 0 - 3126
      [] name = "bhutan"  -> 0 - 3039
      [] name = "karana"  -> 0 - 14765

\* specs.trad_day: m2 = m1/30, s2 = s1/30; TraditionalDayParams.__post_init__:
\* r0 = s0 - 1/4, r1 = s1, r2 = s2
trad_day(name, m0, s0, a0, m1, s1, a1, a2) ==
    [epoch_k |-> k_from_epoch_jd(name),
     m0 |-> m0, m1 |-> m1, m2 |-> MDivInt(m1, 30),
     s0 |-> s0, s1 |-> s1, s2 |-> MDivInt(s1, 30),
     a0 |-> a0, a1 |-> a1, a2 |-> a2,
     r0 |-> MSub(s0, MFrac(1, 4)), r1 |-> s1, r2 |-> MDivInt(s1, 30),
     moon_tab_quarter |-> MOON_TAB_QUARTER,
     sun_tab_quarter |-> SUN_TAB_QUARTER]

\* specs.arith_month defaults: M0 = 3
arith_month(name, Y0, P, Q, beta_star, tau) ==
    [epoch_k |-> k_from_epoch_jd(name),
     Y0 |-> Y0, M0 |-> 3, P |-> P, Q |-> Q,
     beta_star |-> beta_star, tau |-> tau]

PHUGPA_SPEC ==
    [month_params |-> arith_month("phugpa", 1987, P_TIB, Q_TIB, 0, 48),
     day_params |-> trad_day("phugpa", PHUGPA_E1987_M0, PHUGPA_E1987_S0,
                             MFrac(38, 49), M1_TIB, S1_TIB, A1_TIB, A2_STD),
     leap_labeling |-> "first_is_leap"]

TSURPHU_SPEC ==
    [month_params |-> arith_month("tsurphu", 1852, P_TIB, Q_TIB, 14, 0),
     day_params |-> trad_day("tsurphu", TSURPHU_E1852_M0, TSURPHU_E1852_S0,
                             MFrac(1, 49), M1_TIB, S1_TIB, A1_TIB, A2_STD),
     leap_labeling |-> "first_is_leap"]

MONGOL_SPEC ==
    [month_params |-> arith_month("mongol", 1747, P_TIB, Q_TIB, 10, 46),
     day_params |-> trad_day("mongol", MONGOL_E1747_M0, MONGOL_E1747_S0,
                             MFrac(1523, 1764), M1_TIB, S1_TIB, A1_TIB, A2_STD),
     leap_labeling |-> "first_is_leap"]

BHUTAN_SPEC ==
    [month_params |-> arith_month("bhutan", 1754, P_TIB, Q_TIB, 2, 57),
     day_params |-> trad_day("bhutan", BHUTAN_E1754_M0, BHUTAN_E1754_S0,
                             MFrac(17, 147), M1_TIB, S1_TIB, A1_TIB, A2_STD),
     leap_labeling |-> "second_is_leap"]

KARANA_SPEC ==
    [month_params |-> arith_month("karana", 806, P_TIB, Q_TIB, 0, 63),
     day_params |-> trad_day("karana", KARANA_E806_M0, KARANA_E806_S0,
                             MFrac(53, 252), M1_KAR, S1_KAR, A1_KAR, A2_STD),
     leap_labeling |-> "second_is_leap"]

TRAD_SPECS ==
    [name \in {"phugpa", "tsurphu", "mongol", "bhutan", "karana"} |->
        CASE name = "phugpa"  -> PHUGPA_SPEC
          [] name = "tsurphu" -> TSURPHU_SPEC
          [] name = "mongol"  -> MONGOL_SPEC
          [] name = "bhutan"  -> BHUTAN_SPEC
          [] name = "karana"  -> KARANA_SPEC]

-----------------------------------------------------------------------------
(* TraditionalDayEngine (engines/trad_day.py, engines/astro/affine_series) *)

\* PhaseDN.eval
PhaseDN_eval(c0, c1, c2, d, n) ==
    frac_turn(MAdd(MAdd(c0, MScale(n, c1)), MScale(d, c2)))

\* AffineTabSeriesDN.base
SeriesDN_base(c0, cn, cd, d, n) == MAdd(MAdd(c0, MScale(n, cn)), MScale(d, cd))

\* AffineTabSeriesDN.eval for TraditionalDayEngine.series:
\* base + (1/60) moon_table(phase_moon) + (-1/60) sun_table(phase_sun_anomaly)
SeriesDN_eval(p, d, n) ==
    LET t0   == SeriesDN_base(p.m0, p.m1, p.m2, d, n)
        moon == eval_turn(p.moon_tab_quarter, PhaseDN_eval(p.a0, p.a1, p.a2, d, n))
        sun  == eval_turn(p.sun_tab_quarter, PhaseDN_eval(p.r0, p.r1, p.r2, d, n))
        t1   == MAdd(t0, MDivInt(moon, 60))
    IN  MAdd(t1, MNeg(MDivInt(sun, 60)))

\* the lunation taken one coordinate late
to_nd_late(x) == <<(x - 1) \div 30, x - 30 * (x \div 30)>>

\* TraditionalDayEngine._to_nd for an integer coordinate x: (n, d)
to_nd(x) == <<x \div 30, x - 30 * (x \div 30)>>

\* TraditionalDayEngine.true_date: days since J2000.0
true_date(p, x) ==
    LET nd == to_nd(x)
    IN  MSub(SeriesDN_eval(p, nd[2], nd[1]), MInt(JD_J2000))

\* TraditionalDayEngine.local_civil_date
local_civil_date(p, x) == true_date(p, x)

\* x_est = int((target - m0_t2000) / m2), for a positive divisor m
MDivTruncOf(a, c, d, fd) ==
    LET A   == a.w \div c
        B   == a.w % c
        num == B * d + fd.w
        fl  == A * d + (num \div c)
        exact == fd.p = 0 /\ num % c = 0
    IN  IF fl < 0 /\ ~exact THEN fl + 1 ELSE fl

MDivTrunc(a, m) ==
    Let(a, LAMBDA av :
        Let(MScaleBig(m.q, [w |-> 0, p |-> av.p, q |-> av.q]),
            LAMBDA fd : MDivTruncOf(av, m.w * m.q + m.p, m.q, fd)))

RECURSIVE walk_down(_, _, _)
walk_down(p, target, x_est) ==
    IF MLt(target, true_date(p, x_est - 1))
    THEN Let(x_est - 1, LAMBDA x : walk_down(p, target, x))
    ELSE x_est

RECURSIVE walk_up(_, _, _)
walk_up(p, target, x_est) ==
    IF MLe(true_date(p, x_est), target)
    THEN Let(x_est + 1, LAMBDA x : walk_up(p, target, x))
    ELSE x_est

\* the mean-rate estimate alone, without the two walks
get_x_from_t2000_estimate(p, target) ==
    Let(target, LAMBDA t :
        MDivTrunc(MSub(t, MSub(p.m0, MInt(JD_J2000))), p.m2))

\* TraditionalDayEngine.get_x_from_t2000
get_x_from_t2000(p, target) ==
    Let(target, LAMBDA t :
        Let(MDivTrunc(MSub(t, MSub(p.m0, MInt(JD_J2000))), p.m2), LAMBDA x_est :
            Let(walk_down(p, t, x_est), LAMBDA x_lo :
                walk_up(p, t, x_lo))))

-----------------------------------------------------------------------------
(* ArithmeticMonthEngine (engines/arithmetic_month.py)                     *)

amod12(x) == ((x - 1) % 12) + 1

ell(p) == p.Q - p.P

trigger_set(p) == {(p.tau + k) % p.P : k \in 0 .. (ell(p) - 1)}

\* the shift taken with the wrong sign
gamma_shift_sign(p) == p.tau % p.P

gamma_shift(p) == (p.P - p.tau) % p.P

beta_int(p) == p.beta_star + gamma_shift(p)

mstar(p, Y, M) == 12 * (Y - p.Y0) + (M - p.M0)

intercalation_index(p, Y, M) == (ell(p) * mstar(p, Y, M) + p.beta_star) % p.P

intercalation_index_internal(p, Y, M) ==
    (ell(p) * mstar(p, Y, M) + beta_int(p)) % p.P

\* the trigger test with <= in place of <
is_trigger_label_le(p, Y, M) == intercalation_index_internal(p, Y, M) <= ell(p)

is_trigger_label(p, Y, M) == intercalation_index_internal(p, Y, M) < ell(p)

n_plus(p, Y, M) == (p.Q * mstar(p, Y, M) + beta_int(p)) \div p.P

get_lunations(p, year, month) ==
    LET nplus == n_plus(p, year, month)
    IN  IF is_trigger_label(p, year, month)
        THEN <<nplus - 1, nplus>>
        ELSE <<nplus>>

first_lunation(p, year) == get_lunations(p, year, 1)[1]

\* the ceiling taken as a floor
mstar_from_lunation_floor(p, n) == (p.P * n - beta_int(p)) \div p.Q

mstar_from_lunation(p, n) == ((p.P * n - beta_int(p) - 1) \div p.Q) + 1

cumul_month_from_lunation(p, n) == mstar_from_lunation(p, n) + p.M0

label_from_lunation(p, n) ==
    LET cumul      == cumul_month_from_lunation(p, n)
        M          == amod12(cumul)
        Y          == p.Y0 + ((cumul - M) \div 12)
        cumul_next == cumul_month_from_lunation(p, n + 1)
        cumul_prev == cumul_month_from_lunation(p, n - 1)
        leap_state == IF cumul = cumul_next THEN 1
                      ELSE IF cumul = cumul_prev THEN 2
                      ELSE 0
    IN  <<Y, M, leap_state>>

get_month_info(p, n) ==
    LET lab == label_from_lunation(p, n)
    IN  [year |-> lab[1], month |-> lab[2], leap_state |-> lab[3],
         linear_month |-> n - first_lunation(p, lab[1])]

-----------------------------------------------------------------------------
(* Gregorian date <-> JDN (core/time.py); a date is <<year, month, day>>   *)

\* to_jdn without the 400-year rule
core_to_jdn_no400(d) ==
    LET a  == (14 - d[2]) \div 12
        y2 == d[1] + 4800 - a
        m2 == d[2] + 12 * a - 3
    IN  d[3] + ((153 * m2 + 2) \div 5) + 365 * y2 + (y2 \div 4) - (y2 \div 100) - 32045

core_to_jdn(d) ==
    LET y   == d[1]
        m   == d[2]
        day == d[3]
        a   == (14 - m) \div 12
        y2  == y + 4800 - a
        m2  == m + 12 * a - 3
    IN  day + ((153 * m2 + 2) \div 5) + 365 * y2 + (y2 \div 4) - (y2 \div 100)
            + (y2 \div 400) - 32045

core_from_jdn(jdn) ==
    LET a     == jdn + 32044
        b     == (4 * a + 3) \div 146097
        c     == a - ((146097 * b) \div 4)
        d     == (4 * c + 3) \div 1461
        e     == c - ((1461 * d) \div 4)
        m     == (5 * e + 2) \div 153
        day   == e - ((153 * m + 2) \div 5) + 1
        month == m + 3 - 12 * (m \div 10)
        year  == 100 * b + d - 4800 + (m \div 10)
    IN  <<year, month, day>>

\* reference/time_scales.py: date_to_jdn
date_to_jdn(d) ==
    LET y   == d[1]
        m   == d[2]
        day == d[3]
        a   == (14 - m) \div 12
        y2  == y + 4800 - a
        m2  == m + 12 * a - 3
    IN  day + ((153 * m2 + 2) \div 5) + 365 * y2 + (y2 \div 4) - (y2 \div 100)
            + (y2 \div 400) - 32045

\* reference/time_scales.py: jdn_to_date
jdn_to_date(jdn) ==
    LET a     == jdn + 32044
        b     == (4 * a + 3) \div 146097
        c     == a - ((146097 * b) \div 4)
        d     == (4 * c + 3) \div 1461
        e     == c - ((1461 * d) \div 4)
        m     == (5 * e + 2) \div 153
        day   == e - ((153 * m + 2) \div 5) + 1
        month == m + 3 - 12 * (m \div 10)
        year  == 100 * b + d - 4800 + (m \div 10)
    IN  <<year, month, day>>

-----------------------------------------------------------------------------
(* CalendarEngine (engines/calendar.py)                                    *)

\* factory.build_calendar_engine + CalendarEngine.__init__
CalendarEngine(spec) ==
    [month |-> spec.month_params,
     day |-> spec.day_params,
     leap_labeling |-> spec.leap_labeling,
     delta_k |-> spec.month_params.epoch_k - spec.day_params.epoch_k]

Raise(kind) == [ok |-> FALSE, err |-> kind]

\* the month-layer lunation to_jdn selects among get_lunations' result
select_lunation(e, n_m_list, is_leap) ==
    IF Len(n_m_list) = 1 THEN n_m_list[1]
    ELSE IF e.leap_labeling = "first_is_leap"
         THEN (IF is_leap THEN n_m_list[1] ELSE n_m_list[2])
         ELSE (IF is_leap THEN n_m_list[2] ELSE n_m_list[1])

\* to_jdn without the rejection of a leap instance of a one-lunation label
to_jdn_lenient(e, year, month, is_leap, day) ==
    Let(get_lunations(e.month, year, month), LAMBDA n_m_list :
        Let(select_lunation(e, n_m_list, is_leap /\ Len(n_m_list) > 1) + e.delta_k,
            LAMBDA n_d :
                 [ok |-> TRUE,
                  jdn |-> MFloor(MAdd(local_civil_date(e.day, 30 * n_d + day),
                                      MInt(JD_J2000)))]))

\* CalendarEngine.to_jdn
to_jdn(e, year, month, is_leap, day) ==
    Let(get_lunations(e.month, year, month), LAMBDA n_m_list :
        IF Len(n_m_list) = 1 /\ is_leap
        THEN Raise("ValueError")
        ELSE Let(select_lunation(e, n_m_list, is_leap) + e.delta_k, LAMBDA n_d :
                 [ok |-> TRUE,
                  jdn |-> MFloor(MAdd(local_civil_date(e.day, 30 * n_d + day),
                                      MInt(JD_J2000)))]))

\* the JDN on which tithi d of lunation n_d ends (loop body of _build_civil_month)
hit_jdn(e, n_d, d) ==
    MFloor(MAdd(local_civil_date(e.day, 30 * n_d + d), MInt(JD_J2000)))

\* no previous label yet (prev_label is None)
NoLabel == 0

\* the entry labelled by the first tithi that ended on the day
civil_entry_first(ended, prev_label) ==
    IF ended = <<>>
    THEN IF prev_label = NoLabel
         THEN [day |-> 1, repeated |-> FALSE, skipped |-> FALSE]
         ELSE [day |-> prev_label, repeated |-> TRUE, skipped |-> FALSE]
    ELSE [day |-> ended[1], repeated |-> FALSE, skipped |-> Len(ended) >= 2]

\* the entry of one civil day: the tithis that ended on it, the label before it
civil_entry(ended, prev_label) ==
    IF ended = <<>>
    THEN IF prev_label = NoLabel
         THEN [day |-> 1, repeated |-> FALSE, skipped |-> FALSE]
         ELSE [day |-> prev_label, repeated |-> TRUE, skipped |-> FALSE]
    ELSE [day |-> ended[Len(ended)], repeated |-> FALSE, skipped |-> Len(ended) >= 2]

\* the iteration that forgets the label of the day before
civil_step_reset(hits, j, prev_label, acc) ==
    Let(SelectSeq([d \in 1 .. 30 |-> d], LAMBDA d : hits[d] = j), LAMBDA ended :
        Let(civil_entry(ended, NoLabel), LAMBDA entry :
            <<j + 1, entry.day, Append(acc, entry)>>))

\* one iteration of the loop over range(first_jd, last_jd + 1):
\* <<next j, prev_label, day_map>>; prev_label becomes the label just written
civil_step(hits, j, prev_label, acc) ==
    Let(SelectSeq([d \in 1 .. 30 |-> d], LAMBDA d : hits[d] = j), LAMBDA ended :
        Let(civil_entry(ended, prev_label), LAMBDA entry :
            <<j + 1, entry.day, Append(acc, entry)>>))

RECURSIVE civil_walk(_, _, _, _, _)
civil_walk(hits, j, last_jd, prev_label, acc) ==
    IF j > last_jd THEN acc
    ELSE Let(<<civil_step(hits, j, prev_label, acc), hits, last_jd>>, LAMBDA nx :
             civil_walk(nx[2], nx[1][1], nx[3], nx[1][2], nx[1][3]))

\* the first civil day without the + 1: the day the previous lunation ended
first_jd_incl(e, n_d) ==
    MFloor(MAdd(true_date(e.day, 30 * (n_d - 1) + 30), MInt(JD_J2000)))

\* first_jd: the civil day after the one on which the previous lunation ended
first_jd(e, n_d) ==
    MFloor(MAdd(true_date(e.day, 30 * (n_d - 1) + 30), MInt(JD_J2000))) + 1

\* last_jd: the civil day on which tithi 30 ends
last_jd(e, n_d) ==
    MFloor(MAdd(true_date(e.day, 30 * n_d + 30), MInt(JD_J2000)))

\* CalendarEngine._build_civil_month: dict JDN -> attributes, held as the
\* first key and the entries in increasing JDN order
build_civil_month(e, n_d) ==
    Let(<<[d \in 1 .. 30 |-> hit_jdn(e, n_d, d)], first_jd(e, n_d), last_jd(e, n_d)>>,
        LAMBDA v :
            [first_jd |-> v[2],
             days |-> civil_walk(v[1], v[2], v[3], NoLabel, <<>>)])

MapKeys(m) == {m.first_jd + i - 1 : i \in 1 .. Len(m.days)}
MapGet(m, j) == m.days[j - m.first_jd + 1]
MapMin(m) == m.first_jd
MapMax(m) == m.first_jd + Len(m.days) - 1

\* the estimate kept as it is
resolve_n_d_kept(map0, n_d0, jdn) == n_d0

\* the lunation whose civil month holds jdn, given the first map built
resolve_n_d(map0, n_d0, jdn) ==
    IF jdn \in MapKeys(map0) THEN n_d0
    ELSE IF jdn < MapMin(map0) THEN n_d0 - 1
    ELSE IF jdn > MapMax(map0) THEN n_d0 + 1
    ELSE n_d0

\* tail of CalendarEngine.from_jdn once the month map is settled
from_jdn_result(e, month_map, n_d, jdn) ==
    LET entry    == MapGet(month_map, jdn)
        n_m      == n_d - e.delta_k
        is_leap(m_info) ==
            IF m_info.leap_state = 1 THEN e.leap_labeling = "first_is_leap"
            ELSE IF m_info.leap_state = 2 THEN e.leap_labeling = "second_is_leap"
            ELSE FALSE
    IN  IF jdn \notin MapKeys(month_map)
        THEN Raise("KeyError")
        ELSE Let(<<entry, get_month_info(e.month, n_m)>>, LAMBDA v :
                 [ok |-> TRUE,
                  year |-> v[2].year, month |-> v[2].month, is_leap |-> is_leap(v[2]),
                  day |-> v[1].day, repeated |-> v[1].repeated,
                  skipped |-> v[1].skipped, linear_month |-> v[2].linear_month])

\* CalendarEngine.from_jdn
from_jdn(e, jdn) ==
    LET approx_t2000 == MAdd(MInt(jdn - JD_J2000), MFrac(1, 2))
    IN  Let(get_x_from_t2000(e.day, approx_t2000) \div 30, LAMBDA n_d0 :
        Let(build_civil_month(e, n_d0), LAMBDA map0 :
        Let(resolve_n_d(map0, n_d0, jdn), LAMBDA n_d :
        Let(IF n_d = n_d0 THEN map0 ELSE build_civil_month(e, n_d), LAMBDA month_map :
            from_jdn_result(e, month_map, n_d, jdn)))))

\* CalendarEngine.day_info
day_info(e, d) ==
    Let(from_jdn(e, core_to_jdn(d)), LAMBDA res :
        IF ~res.ok THEN res
        ELSE [ok |-> TRUE,
              civil_date |-> d,
              tibetan |-> [tib_year |-> res.year, month_no |-> res.month,
                           is_leap_month |-> res.is_leap, tithi |-> res.day,
                           occ |-> IF res.repeated THEN 2 ELSE 1],
              status |-> IF res.repeated THEN "duplicated" ELSE "normal"])

\* CalendarEngine.to_gregorian: the policy is not consulted
to_gregorian(e, t, policy) ==
    Let(to_jdn(e, t.tib_year, t.month_no, t.is_leap_month, t.tithi), LAMBDA r :
        IF ~r.ok THEN r
        ELSE [ok |-> TRUE, dates |-> <<core_from_jdn(r.jdn)>>])

-----------------------------------------------------------------------------
(* Rational lane: sunrise models (engines/astro/sunrise.py) and the civil   *)
(* alignment of RationalDayEngineNew (engines/rational_day.py)              *)

\* LOC_LHASA: lat_turn = 2965/36000, lon_turn = 9110/36000
LOC_LHASA ==
    [type |-> "LocationRational", lat_turn |-> MFrac(2965, 36000),
     lon_turn |-> MFrac(9110, 36000)]

\* DAWN_CONSTANT_DEF = ConstantSunriseRationalDef(Fraction(90, 360))
DAWN_CONSTANT_DEF == [kind |-> "constant", day_fraction |-> MFrac(90, 360)]

\* DAWN_SPHERICAL_DEF; the table pipeline that yields the hour angle is not
\* evaluated here, H0_turn is supplied with the call
DAWN_SPHERICAL_DEF == [kind |-> "spherical"]

\* the sunrise definition each reform engine is built with
RATIONAL_SUNRISE ==
    [name \in {"reform-l1", "reform-l3"} |->
        IF name = "reform-l1" THEN DAWN_CONSTANT_DEF ELSE DAWN_SPHERICAL_DEF]

\* Python values as passed positionally: an int, a Fraction
PyInt(v) == [type |-> "int", value |-> v]
PyFraction(v) == [type |-> "Fraction", value |-> v]

\* ConstantSunriseRational.sunrise_utc_fraction: reads loc.lon_turn
constant_sunrise(model, loc) ==
    IF loc.type # "LocationRational"
    THEN Raise("AttributeError")
    ELSE [ok |-> TRUE, value |-> MSub(model.day_fraction, loc.lon_turn)]

\* SphericalSunriseRational.sunrise_utc_fraction from the hour angle on:
\* t_rise_app = 1/2 - H0, t_rise_utc = t_rise_app - lon_turn, wrapped to [0, 1)
spherical_sunrise(loc, true_sun_turn, H0_turn) ==
    IF loc.type # "LocationRational" \/ true_sun_turn.type # "Fraction"
    THEN Raise("AttributeError")
    ELSE Let(MSub(MSub(MFrac(1, 2), H0_turn), loc.lon_turn), LAMBDA t_rise_utc :
             [ok |-> TRUE, value |-> MSub(t_rise_utc, MInt(MFloor(t_rise_utc)))])

\* SunriseRationalModel.sunrise_utc_fraction(loc, true_sun_turn, mean_sun_turn)
sunrise_utc_fraction(model, loc, true_sun_turn, mean_sun_turn, H0_turn) ==
    IF model.kind = "constant"
    THEN constant_sunrise(model, loc)
    ELSE spherical_sunrise(loc, true_sun_turn, H0_turn)

\* j_civil = floor(t_utc + lon_turn + 1/4)
j_civil_of(loc, t_utc) == MFloor(MAdd(MAdd(t_utc, loc.lon_turn), MFrac(1, 4)))

\* the date assembled from the exact dawn: j_civil + (t_utc - dawn_utc_exact),
\* dawn_utc_exact = j_civil - 1/2 + dawn_frac_exact
assemble_true_date(j_civil, t_utc, dawn_frac_exact) ==
    Let(MAdd(MSub(MInt(j_civil), MFrac(1, 2)), dawn_frac_exact), LAMBDA dawn_utc_exact :
        Let(MSub(t_utc, dawn_utc_exact), LAMBDA offset :
            [ok |-> TRUE, j_civil |-> j_civil, offset |-> offset,
             date |-> MAdd(MInt(j_civil), offset)]))

\* RationalDayEngineNew.local_true_date from t_utc on; the sunrise model is
\* called with (j_civil, location, lambda_sun) as the source writes it
local_true_date(model, loc, t_utc, lambda_sun, H0_turn) ==
    Let(j_civil_of(loc, t_utc), LAMBDA j_civil :
        Let(sunrise_utc_fraction(model, PyInt(j_civil), loc,
                                 PyFraction(lambda_sun), H0_turn), LAMBDA dawn :
            IF ~dawn.ok THEN dawn
            ELSE assemble_true_date(j_civil, t_utc, dawn.value)))

\* RationalDayEngineNew.end_jd: the integer part of the local true date
end_jd(td) == IF td.ok THEN [ok |-> TRUE, jd |-> MFloor(td.date)] ELSE td

-----------------------------------------------------------------------------
(* Bounds of the model                                                     *)

\* lunations -LunSpan .. LunSpan around each engine's epoch
LunSpan == 12
\* Gregorian dates of DateYear, months FirstGregMonth .. FirstGregMonth + GregMonths - 1
DateYear == 1987
FirstGregMonth == 3
GregMonths == 3
\* label years Y0 - YearSpan .. Y0 + YearSpan
YearSpan == 1
\* generic month parameters: 1 <= P <= MaxP, P < Q <= 2P + ExtraQ
MaxP == 3
ExtraQ == 1
\* window start years Y0 - CadenceSpan .. Y0 + CadenceSpan for shipped ratios
CadenceSpan == 167

Engines == DOMAIN TRAD_SPECS

Lunations == (0 - LunSpan) .. LunSpan

IsLeapYear(y) == y % 4 = 0 /\ (y % 100 # 0 \/ y % 400 = 0)

DaysInMonth(y, m) ==
    IF m = 2 THEN (IF IsLeapYear(y) THEN 29 ELSE 28)
    ELSE IF m \in {4, 6, 9, 11} THEN 30 ELSE 31

GregMonthRange == FirstGregMonth .. (FirstGregMonth + GregMonths - 1)

\* a second window of civil dates: the month EarlyMonth of the year EarlyYear
EarlyYear == 1978
EarlyMonth == 8

Dates ==
    {d \in ({DateYear} \X GregMonthRange \X (1 .. 31))
            \cup ({EarlyYear} \X {EarlyMonth} \X (1 .. 31)) :
        d[3] <= DaysInMonth(d[1], d[2])}

Policies == {"occ", "all", "raise"}

\* reform L1-L3 month parameters (specs.arith_month defaults with P_NEW/Q_NEW)
REFORM_MONTH ==
    [epoch_k |-> 0 - 157, Y0 |-> 1987, M0 |-> 3, P |-> P_NEW, Q |-> Q_NEW,
     beta_star |-> 57, tau |-> 0]

ShippedMonthParams == {TRAD_SPECS[n].month_params : n \in Engines} \cup {REFORM_MONTH}

\* parameter sets accepted by ArithmeticMonthParams.__post_init__
GenericMonthParams ==
    {[epoch_k |-> 0, Y0 |-> 1987, M0 |-> M0, P |-> P, Q |-> Q,
      beta_star |-> b, tau |-> t] :
        P \in 1 .. MaxP, Q \in 2 .. (2 * MaxP + ExtraQ), t \in 0 .. (MaxP - 1),
        b \in (0 - 1) .. MaxP, M0 \in {1, 3, 12}}

ValidMonthParams(p) ==
    /\ p.P > 0 /\ p.Q > 0
    /\ p.P < p.Q
    /\ 1 <= p.M0 /\ p.M0 <= 12
    /\ 0 <= p.tau /\ p.tau < p.P

LabelYears(p) ==
    IF p \in ShippedMonthParams
    THEN (p.Y0 - CadenceSpan) .. (p.Y0 + CadenceSpan)
    ELSE (p.Y0 - YearSpan) .. (p.Y0 + YearSpan)

\* the engine in use: shipped day layer, month layer mp
Eng == [month |-> mp,
        day |-> TRAD_SPECS[engine].day_params,
        leap_labeling |-> TRAD_SPECS[engine].leap_labeling,
        delta_k |-> mp.epoch_k - TRAD_SPECS[engine].day_params.epoch_k]

-----------------------------------------------------------------------------
(* Operations                                                              *)

Idle == op = "idle"

Call(o, a, r) == /\ Idle
                 /\ op' = o
                 /\ args' = a
                 /\ ret' = r
                 /\ UNCHANGED <<engine, mp, registry>>

GetMonthInfo ==
    /\ Idle
    /\ \E n \in Lunations :
           Call("get_month_info", [n |-> n], get_month_info(mp, n))

GetLunations ==
    /\ Idle
    /\ \E Y \in (mp.Y0 - YearSpan) .. (mp.Y0 + YearSpan), M \in 1 .. 12 :
           Call("get_lunations", [year |-> Y, month |-> M, src |-> "label"],
                get_lunations(mp, Y, M))

\* get_month_info(n) followed by get_lunations on the label it returned
ResolveBack ==
    /\ op = "get_month_info"
    /\ op' = "get_lunations"
    /\ args' = [year |-> ret.year, month |-> ret.month, src |-> "lunation",
                n |-> args.n, leap_state |-> ret.leap_state]
    /\ ret' = get_lunations(mp, ret.year, ret.month)
    /\ UNCHANGED <<engine, mp, registry>>

IsTriggerLabel ==
    /\ Idle
    /\ \E Y \in LabelYears(mp), M \in 1 .. 12 :
           Call("is_trigger_label", [year |-> Y, month |-> M],
                is_trigger_label(mp, Y, M))

IntercalationIndex ==
    /\ Idle
    /\ \E Y \in (mp.Y0 - YearSpan) .. (mp.Y0 + YearSpan), M \in 1 .. 12 :
           Call("intercalation_index", [year |-> Y, month |-> M],
                intercalation_index(mp, Y, M))

BuildCivilMonth ==
    /\ Idle
    /\ \E n \in Lunations, e \in {Eng} :
           Call("_build_civil_month", [n_d |-> n], build_civil_month(e, n))

LocalCivilDate ==
    /\ Idle
    /\ \E x \in (30 * (0 - LunSpan)) .. (30 * LunSpan + 30), e \in {Eng} :
           Call("local_civil_date", [x |-> x], local_civil_date(e.day, x))

\* month and day arguments, one beyond the label ranges 1..12 and 1..30 included
MonthArgs == 0 .. 13
DayArgs == 0 .. 31

ToJdn ==
    /\ Idle
    /\ \E Y \in (mp.Y0 - YearSpan) .. (mp.Y0 + YearSpan), M \in MonthArgs,
          is_leap \in BOOLEAN, d \in DayArgs, e \in {Eng} :
           Call("to_jdn", [year |-> Y, month |-> M, is_leap |-> is_leap, day |-> d],
                to_jdn(e, Y, M, is_leap, d))

DayInfo ==
    /\ Idle
    /\ \E d \in Dates, e \in {Eng} :
           Call("day_info", [d |-> d], day_info(e, d))

\* from_jdn on the JDN to_jdn returned for a label with month 1..12 and
\* tithi 1..30, of the epoch year or of a leap month
FromJdn ==
    /\ op = "to_jdn"
    /\ ret.ok
    /\ args.month \in 1 .. 12
    /\ args.day \in 1 .. 30
    /\ args.year = mp.Y0 \/ args.is_leap
    /\ \E e \in {Eng} :
        /\ op' = "from_jdn"
        /\ args' = [jdn |-> ret.jdn, label |-> args]
        /\ ret' = from_jdn(e, ret.jdn)
    /\ UNCHANGED <<engine, mp, registry>>

\* attributes/standard.py: weekday
weekday(info) == [weekday |-> (core_to_jdn(info.civil_date) + 1) % 7]

\* attributes/standard.py: sexagenary_year
sexagenary_year(info) ==
    [animal_mod12 |-> info.tibetan.tib_year % 12,
     element_mod5 |-> info.tibetan.tib_year % 5,
     stem_mod10 |-> info.tibetan.tib_year % 10]

\* attributes/registry.py: compute_attributes for one name; the registry holds
\* "weekday" and "sexagenary_year"
compute_attributes(info, name) ==
    IF name = "weekday" THEN [ok |-> TRUE, attributes |-> weekday(info)]
    ELSE IF name = "sexagenary_year"
    THEN [ok |-> TRUE, attributes |-> sexagenary_year(info)]
    ELSE Raise("KeyError")

\* api.day_info with attributes: compute_attributes on the DayInfo the engine
\* returned
ComputeAttributes ==
    /\ op = "day_info"
    /\ ret.ok
    /\ \E name \in {"weekday", "sexagenary_year", "nakshatra"} :
        /\ op' = "compute_attributes"
        /\ args' = [info |-> ret, name |-> name]
        /\ ret' = compute_attributes(ret, name)
    /\ UNCHANGED <<engine, mp, registry>>

\* the round trip of tests/round_trip.py: to_gregorian on the label day_info returned
ToGregorian ==
    /\ op = "day_info"
    /\ ret.ok
    /\ \E policy \in Policies, e \in {Eng} :
        /\ op' = "to_gregorian"
        /\ args' = [t |-> ret.tibetan, policy |-> policy, d0 |-> args.d]
        /\ ret' = to_gregorian(e, ret.tibetan, policy)
    /\ UNCHANGED <<engine, mp, registry>>

Done ==
    /\ ~Idle
    /\ ~(op = "picard_solve" /\ ret.ok /\ ret.pc = "loop")
    /\ op' = "idle"
    /\ args' = <<>>
    /\ ret' = <<>>
    /\ UNCHANGED <<engine, mp, registry>>

MonthNext ==
    \/ GetMonthInfo
    \/ GetLunations
    \/ ResolveBack
    \/ IsTriggerLabel
    \/ IntercalationIndex
    \/ Done

\* month layer alone, over every accepted parameter set within the bounds
MonthInit ==
    /\ engine = "phugpa"
    /\ mp \in {p \in GenericMonthParams \cup ShippedMonthParams : ValidMonthParams(p)}
    /\ op = "idle"
    /\ args = <<>>
    /\ ret = <<>>
    /\ registry = [init |-> FALSE]

MonthSpec == MonthInit /\ [][MonthNext]_vars

\* the shipped traditional engines
\* the JDN range of the years 1..9999 (tests/test_time_scales.py) and its sampling
FirstJdn == 1721426
LastJdn == 5373484
JdnStride == 4001
JdnRun == 200

\* jdn_to_date / from_jdn followed by date_to_jdn / to_jdn
JdnRoundTrip ==
    /\ Idle
    /\ \E impl \in {"core", "reference"},
          j \in {FirstJdn + i * JdnStride : i \in 0 .. ((LastJdn - FirstJdn) \div JdnStride)}
                \cup (FirstJdn .. (FirstJdn + JdnRun)) \cup ((LastJdn - JdnRun) .. LastJdn) :
           Call("jdn_round_trip", [impl |-> impl, jdn |-> j],
                IF impl = "core"
                THEN [date |-> core_from_jdn(j), jdn |-> core_to_jdn(core_from_jdn(j))]
                ELSE [date |-> jdn_to_date(j), jdn |-> date_to_jdn(jdn_to_date(j))])

\* date_to_jdn / to_jdn followed by jdn_to_date / from_jdn
DateRoundTrip ==
    /\ Idle
    /\ \E impl \in {"core", "reference"},
          d \in {d \in {1, 100, 400, 1582, 1900, 2000, 2026, 2400, 9999}
                        \X (1 .. 12) \X (1 .. 31) : d[3] <= DaysInMonth(d[1], d[2])} :
           Call("date_round_trip", [impl |-> impl, date |-> d],
                IF impl = "core"
                THEN [jdn |-> core_to_jdn(d), date |-> core_from_jdn(core_to_jdn(d))]
                ELSE [jdn |-> date_to_jdn(d), date |-> jdn_to_date(date_to_jdn(d))])

\* times asked of get_x_from_t2000: every 1/TimeSteps of a day over TimeDays
\* days from FirstT2000 (days since J2000.0) on
FirstT2000 == 0 - 4700
TimeDays == 40
TimeSteps == 8
T2000Times ==
    {MFrac(k, TimeSteps) :
        k \in (FirstT2000 * TimeSteps) .. ((FirstT2000 + TimeDays) * TimeSteps)}

GetXFromT2000 ==
    /\ Idle
    /\ \E t \in T2000Times, e \in {Eng} :
           Call("get_x_from_t2000", [t2000 |-> t], get_x_from_t2000(e.day, t))

Init ==
    /\ engine \in Engines
    /\ mp = TRAD_SPECS[engine].month_params
    /\ op = "idle"
    /\ args = <<>>
    /\ ret = <<>>
    /\ registry = [init |-> FALSE]

Next ==
    \/ BuildCivilMonth
    \/ LocalCivilDate
    \/ ToJdn
    \/ DayInfo
    \/ ToGregorian
    \/ JdnRoundTrip
    \/ DateRoundTrip
    \/ GetXFromT2000
    \/ ComputeAttributes
    \/ FromJdn
    \/ Done

Spec == Init /\ [][Next]_vars

-----------------------------------------------------------------------------
(* Rational lane: operations on the reform engines                          *)

\* bounds of the rational-lane inputs
TabMax == 3
TurnDen == 24
TurnSpan == 1
YSteps == 12
UtcDays == 2
UtcSteps == 8
SunSteps == 4
HourSteps == 12

\* PhaseT.eval: c0 + c1 * t reduced mod 1
PhaseT_eval(phase, t) == frac_turn(MAdd(phase.c0, MMul(phase.c1, t)))

\* the correction sum C(t) = sum of amp * table(phase(t)) over the terms
RECURSIVE correction_sum(_, _, _, _)
correction_sum(terms, t, i, corr) ==
    IF i > Len(terms) THEN corr
    ELSE Let(MAdd(corr, MMul(terms[i].amp,
                             eval_turn(terms[i].table, PhaseT_eval(terms[i].phase, t)))),
             LAMBDA c : correction_sum(terms, t, i + 1, c))

\* the iteration step applied to the iterate itself: t - C(t) / B
picard_step_from_t(series, t0, t) ==
    MSub(t, MMul(correction_sum(series.terms, t, 1, MInt(0)), MDiv(MInt(1), series.B)))

\* one pass of the loop of picard_solve: t = t0 - corr * invB
picard_step(series, t0, t) ==
    MSub(t0, MMul(correction_sum(series.terms, t, 1, MInt(0)), MDiv(MInt(1), series.B)))

\* bounds of the series handed to picard_solve
MaxIterations == 4
PicardDen == 2
PicardSpan == 4

\* terms over two small tables
PicardTerms ==
    LET T1 == [amp |-> MFrac(1, 4), phase |-> [c0 |-> MInt(0), c1 |-> MFrac(1, 2)],
               table |-> <<0, 1, 2>>]
        T2 == [amp |-> MFrac(0 - 1, 2), phase |-> [c0 |-> MFrac(1, 8), c1 |-> MInt(1)],
               table |-> <<0, 3, 4>>]
    IN  {<<>>, <<T1>>, <<T1, T2>>}

\* AffineTabSeriesT(A, B, terms) with B # 0
PicardSeries ==
    {[A |-> A, B |-> B, terms |-> terms] :
        A \in {MInt(0), MFrac(1, 2)},
        B \in {MInt(2), MFrac(0 - 3, 2), MFrac(1, 2)},
        terms \in PicardTerms}

PicardTargets == {MFrac(k, PicardDen) : k \in (0 - PicardSpan) .. PicardSpan}

\* picard_solve is inside its loop
InPicardLoop == op = "picard_solve" /\ ret.ok /\ ret.pc = "loop"

\* AffineTabSeriesT.picard_solve up to the loop (t_init is None); evals counts
\* the evaluations of the correction sum
PicardSolve ==
    /\ Idle
    /\ \E series \in PicardSeries, x0 \in PicardTargets, k \in 0 .. MaxIterations :
           Call("picard_solve", [series |-> series, x0 |-> x0, iterations |-> k],
                IF k <= 0 THEN Raise("ValueError")
                ELSE Let(MDiv(MSub(x0, series.A), series.B), LAMBDA t0 :
                         [ok |-> TRUE, pc |-> "loop", t0 |-> t0, t |-> t0,
                          done |-> 0, evals |-> 0]))

\* one iteration of "for _ in range(iterations)"; the return after the last
PicardStep ==
    /\ InPicardLoop
    /\ ret' = [ret EXCEPT !.t = picard_step(args.series, ret.t0, ret.t),
                          !.done = ret.done + 1,
                          !.evals = ret.evals + 1,
                          !.pc = IF ret.done + 1 = args.iterations
                                 THEN "return" ELSE "loop"]
    /\ UNCHANGED <<engine, mp, op, args, registry>>

\* DT_CONSTANT_DEF and DT_QUADRATIC_DEF (specs.py)
DT_CONSTANT_DEF == [kind |-> "constant", value |-> MInt(69)]
DT_QUADRATIC_DEF ==
    [kind |-> "quadratic", a |-> MInt(0 - 20), b |-> MInt(0), c |-> MInt(32),
     y0 |-> MInt(1820)]

\* RationalDayEngineNew.__init__, step 5: the Delta-T model bound from the
\* definition; QuadraticDeltaTRational is built from a, b, c and keeps the
\* default of its field y0, Fraction(1820, 1)
bind_delta_t(def) ==
    IF def.kind = "constant"
    THEN [kind |-> "constant", value |-> def.value]
    ELSE [kind |-> "quadratic", a |-> def.a, b |-> def.b, c |-> def.c,
          y0 |-> MInt(1820)]

\* ConstantDeltaTRational / QuadraticDeltaTRational.delta_t_seconds
delta_t_seconds(model, t2000_tt) ==
    IF model.kind = "constant" THEN model.value
    ELSE Let(MDiv(MSub(MAdd(MDiv(t2000_tt, MFrac(1461, 4)), MInt(2000)), model.y0),
                  MInt(100)),
             LAMBDA u : MAdd(model.a, MMul(u, MAdd(model.b, MMul(u, model.c)))))

\* times asked of the Delta-T model: every half Julian year within DtSpan
\* half-years of J2000.0
DtSpan == 60
DeltaTTimes == {MFrac(1461 * j, 8) : j \in (0 - DtSpan) .. DtSpan}

\* Delta-T definitions: the shipped ones, and quadratics with other
\* coefficients and reference years
DeltaTDefs ==
    {DT_CONSTANT_DEF, DT_QUADRATIC_DEF}
    \cup {[kind |-> "quadratic", a |-> MInt(a), b |-> MInt(b), c |-> MInt(32),
           y0 |-> MInt(y0)] :
            a \in {0 - 20, 1}, b \in {0, 2}, y0 \in {1820, 1900, 2000}}

\* the Delta-T of an engine built from the definition def, at the time t
DeltaTSeconds ==
    /\ Idle
    /\ \E def \in DeltaTDefs, t \in DeltaTTimes :
           Call("delta_t_seconds", [def |-> def, t |-> t],
                delta_t_seconds(bind_delta_t(def), t))

RationalEngines == DOMAIN RATIONAL_SUNRISE
UtcTimes == {MFrac(k, UtcSteps) : k \in (0 - UtcDays * UtcSteps) .. (UtcDays * UtcSteps)}
SunLongitudes == {MFrac(k, SunSteps) : k \in 0 .. (SunSteps - 1)}
\* hour angles in turns [0, 1/2]
HourAngles == {MFrac(k, 2 * HourSteps) : k \in 0 .. HourSteps}

\* engine.local_true_date, from the UTC boundary time on
LocalTrueDate ==
    /\ engine \in RationalEngines
    /\ \E t_utc \in UtcTimes, lambda_sun \in SunLongitudes, H0 \in HourAngles :
         Call("local_true_date",
              [t_utc |-> t_utc, lambda_sun |-> lambda_sun, H0 |-> H0],
              local_true_date(RATIONAL_SUNRISE[engine], LOC_LHASA, t_utc, lambda_sun, H0))

\* engine.end_jd on the date just computed
EndJd ==
    /\ op = "local_true_date"
    /\ op' = "end_jd"
    /\ ret' = end_jd(ret)
    /\ UNCHANGED <<engine, mp, args, registry>>

\* engine.sunrise.sunrise_utc_fraction(loc, true_sun_turn, mean_sun_turn)
SunriseUtcFraction ==
    /\ engine \in RationalEngines
    /\ \E lambda_sun \in SunLongitudes, H0 \in HourAngles :
         Call("sunrise_utc_fraction",
              [lambda_sun |-> lambda_sun, H0 |-> H0],
              sunrise_utc_fraction(RATIONAL_SUNRISE[engine], LOC_LHASA,
                                   PyFraction(lambda_sun), PyFraction(lambda_sun), H0))

\* quarter tables: the shipped ones and every table of three small samples
Tables ==
    {MOON_TAB_QUARTER, SUN_TAB_QUARTER, SINE_TAB_QUARTER}
        \cup {<<z, a, b>> : z \in 0 .. 1, a \in 0 .. TabMax, b \in 0 .. TabMax}

\* table.eval_turn
EvalTurn ==
    /\ Idle
    /\ \E quarter \in Tables, k \in (0 - TurnSpan * TurnDen) .. (TurnSpan * TurnDen) :
           Call("eval_turn", [quarter |-> quarter, theta |-> MFrac(k, TurnDen)],
                eval_turn(quarter, MFrac(k, TurnDen)))

\* table.asin_turn on a strictly increasing table, y between -peak and peak
AsinTurn ==
    /\ Idle
    /\ \E quarter \in {q \in Tables : \A i \in 2 .. Len(q) : q[i - 1] < q[i]},
          k \in (0 - YSteps) .. YSteps :
           Call("asin_turn",
                [quarter |-> quarter, y |-> MFrac(quarter[Len(quarter)] * k, YSteps)],
                asin_turn(quarter, MFrac(quarter[Len(quarter)] * k, YSteps)))

RatInit ==
    /\ engine \in RationalEngines
    /\ mp = REFORM_MONTH
    /\ op = "idle"
    /\ args = <<>>
    /\ ret = <<>>
    /\ registry = [init |-> FALSE]

RatNext ==
    \/ LocalTrueDate
    \/ EndJd
    \/ SunriseUtcFraction
    \/ EvalTurn
    \/ AsinTurn
    \/ PicardSolve
    \/ PicardStep
    \/ DeltaTSeconds
    \/ Done

RatSpec == RatInit /\ [][RatNext]_vars

-----------------------------------------------------------------------------
(* Engine registry and public API (core/engine.py, api.py, bootstrap.py)    *)

\* specs.ALL_SPECS: the kind of each EngineSpec; every payload is a CalendarSpec
ALL_SPECS ==
    [n \in {"phugpa", "tsurphu", "mongol", "bhutan", "karana",
            "reform-l1", "reform-l2", "reform-l3", "reform-l4"} |->
        [kind |-> IF n \in {"reform-l1", "reform-l2", "reform-l3", "reform-l4"}
                  THEN "rational" ELSE "traditional",
         payload |-> "CalendarSpec"]]

\* make_engine with a branch for the kind "traditional"
make_engine_all_kinds(name) == [ok |-> TRUE, engine |-> name]

\* menu.make_engine: kinds "rational" and "fp" only; RationalEngine.__init__
\* reads spec.month and spec.day, which a CalendarSpec payload does not have
make_engine(name) ==
    IF ALL_SPECS[name].kind \in {"rational", "fp"}
    THEN (IF ALL_SPECS[name].payload = "CalendarSpec"
          THEN Raise("AttributeError")
          ELSE [ok |-> TRUE, engine |-> name])
    ELSE Raise("NotImplementedError")

\* bootstrap.build_registry: traditional engines, then reform engines; the
\* optional reform-l6 is left out when build_l6_engine raises
build_registry ==
    LET failed(names) == {n \in names : ~make_engine(n).ok}
        trad   == {n \in DOMAIN ALL_SPECS : ALL_SPECS[n].kind = "traditional"}
        reform == DOMAIN ALL_SPECS \ trad
    IN  IF failed(trad) # {} THEN make_engine(CHOOSE n \in failed(trad) : TRUE)
        ELSE IF failed(reform) # {} THEN make_engine(CHOOSE n \in failed(reform) : TRUE)
        ELSE [ok |-> TRUE,
              engines |-> [n \in DOMAIN ALL_SPECS |-> make_engine(n).engine]]

\* sorted(names): Python's string order on the names in use
sorted_names(S) ==
    SelectSeq(<<"bhutan", "karana", "mongol", "phugpa", "reform-l1", "reform-l2",
                "reform-l3", "reform-l4", "reform-l6", "tsurphu">>,
              LAMBDA n : n \in S)

\* EngineRegistry.get without the membership test
registry_get_default(engines, name) ==
    [ok |-> TRUE,
     engine |-> IF name \in DOMAIN engines THEN engines[name] ELSE "phugpa"]

\* EngineRegistry.get
registry_get(engines, name) ==
    IF name \notin DOMAIN engines
    THEN [ok |-> FALSE, err |-> "KeyError", available |-> sorted_names(DOMAIN engines)]
    ELSE [ok |-> TRUE, engine |-> engines[name]]

\* _reg() with None passed on
reg_unchecked(reg) == [ok |-> TRUE, engines |-> IF reg.init THEN reg.engines ELSE <<>>]

\* api._reg
reg(r) ==
    IF ~r.init THEN Raise("RuntimeError") ELSE [ok |-> TRUE, engines |-> r.engines]

\* EngineRegistry.register that always stores
registry_register_always(engines, name, eng, overwrite) ==
    [ok |-> TRUE,
     engines |-> [n \in DOMAIN engines \cup {name} |->
                     IF n = name THEN eng ELSE engines[n]]]

\* EngineRegistry.register
registry_register(engines, name, eng, overwrite) ==
    IF ~overwrite /\ name \in DOMAIN engines
    THEN Raise("KeyError")
    ELSE [ok |-> TRUE,
          engines |-> [n \in DOMAIN engines \cup {name} |->
                          IF n = name THEN eng ELSE engines[n]]]

\* names asked for, engines handed in, registries handed to set_registry
ApiNames == {"phugpa", "reform-l1", "reform-l6"}
EngineObjects == {"phugpa", "reform-l1", "phugpa-rm"}
Registries == UNION {[S -> EngineObjects] : S \in SUBSET (ApiNames \cap EngineObjects)}

\* the month layer of an engine object: factory.build_calendar_engine builds an
\* ArithmeticMonthEngine from ArithmeticMonthParams and a RationalMonthEngine
\* from RationalMonthParams; "phugpa-rm" is phugpa's arithmetic held as
\* RationalMonthParams (leap_labeling is a field of these only)
engine_month(obj) ==
    IF obj = "phugpa-rm"
    THEN [class |-> "RationalMonthEngine", p |-> PHUGPA_SPEC.month_params,
          leap_labeling |-> "first_is_leap"]
    ELSE [class |-> "ArithmeticMonthEngine",
          p |-> IF obj = "phugpa" THEN PHUGPA_SPEC.month_params ELSE REFORM_MONTH]

\* attributes of the month engine classes that months_in_year and
\* new_year_day reach for
MonthEngineAttrs ==
    [ArithmeticMonthEngine |->
        {"p", "epoch_k", "sgang1", "get_lunations", "first_lunation", "get_month_info",
         "mstar", "intercalation_index", "intercalation_index_internal",
         "is_trigger_label", "intercalation_index_traditional", "n_plus",
         "mstar_from_lunation", "cumul_month_from_lunation", "label_from_lunation",
         "debug_label", "debug_lunation"},
     RationalMonthEngine |->
        {"p", "mstar", "intercalation_index", "intercalation_index_internal",
         "is_trigger_label", "intercalation_index_traditional", "n_plus",
         "true_month", "mstar_from_true_month", "x_from_true_month",
         "label_from_true_month", "debug_label", "debug_true_month"}]

\* fields of the parameter dataclasses
MonthParamFields ==
    [ArithmeticMonthEngine |->
        {"epoch_k", "sgang1", "Y0", "M0", "P", "Q", "beta_star", "tau"},
     RationalMonthEngine |->
        {"Y0", "M0", "P", "Q", "beta_star", "tau", "leap_labeling"}]

\* RationalMonthEngine.true_month
true_month(me, Y, M, is_leap_month) ==
    IF ~is_trigger_label(me.p, Y, M)
    THEN (IF is_leap_month THEN Raise("ValueError")
          ELSE [ok |-> TRUE, n |-> n_plus(me.p, Y, M)])
    ELSE IF me.leap_labeling = "first_is_leap"
         THEN [ok |-> TRUE,
               n |-> IF is_leap_month THEN n_plus(me.p, Y, M) - 1 ELSE n_plus(me.p, Y, M)]
         ELSE [ok |-> TRUE,
               n |-> IF is_leap_month THEN n_plus(me.p, Y, M) ELSE n_plus(me.p, Y, M) - 1]

\* intercalation_index_traditional (the same in both month engines)
intercalation_index_traditional(p, Y, M, wrap) ==
    LET I      == intercalation_index(p, Y, M)
        cutoff == p.tau + ell(p) - 1
        I_trad == IF I > cutoff THEN I + ell(p) ELSE I
    IN  IF wrap = "extended" THEN I_trad ELSE I_trad % p.P

\* months_in_year: the records of one label (Y, M)
month_records(me, Y, M) ==
    LET trig == is_trigger_label(me.p, Y, M)
        insts == IF trig
                 THEN (IF me.leap_labeling = "first_is_leap"
                       THEN <<TRUE, FALSE>> ELSE <<FALSE, TRUE>>)
                 ELSE <<FALSE>>
        rec(is_leap) ==
            [Y |-> Y, M |-> M, is_leap_month |-> is_leap,
             n |-> true_month(me, Y, M, is_leap).n,
             trigger |-> trig,
             I |-> intercalation_index(me.p, Y, M),
             I_int |-> intercalation_index_internal(me.p, Y, M),
             I_trad_ext |-> intercalation_index_traditional(me.p, Y, M, "extended"),
             I_trad_mod |-> intercalation_index_traditional(me.p, Y, M, "mod")]
    IN  IF trig /\ "leap_labeling" \notin MonthParamFields[me.class]
        THEN Raise("AttributeError")
        ELSE IF "true_month" \notin MonthEngineAttrs[me.class]
        THEN Raise("AttributeError")
        ELSE [ok |-> TRUE, recs |-> [i \in 1 .. Len(insts) |-> rec(insts[i])]]

\* months_in_year: the loop over M in range(1, 13)
RECURSIVE months_walk(_, _, _, _)
months_walk(me, Y, M, out) ==
    IF M > 12 THEN [ok |-> TRUE, records |-> out]
    ELSE Let(<<month_records(me, Y, M), me, Y, M, out>>, LAMBDA v :
             IF ~v[1].ok THEN v[1]
             ELSE months_walk(v[2], v[3], v[4] + 1, v[5] \o v[1].recs))

\* api.months_in_year, from the engine _reg().get(engine) returned on
\* (CalendarEngine has the attribute month and no month_info)
months_in_year(obj, Y) == months_walk(engine_month(obj), Y, 1, <<>>)

\* RationalMonthEngine.mstar_from_true_month
mstar_from_true_month(p, n) == ((p.P * n - beta_int(p) - 1) \div p.Q) + 1

\* RationalMonthEngine.label_from_true_month: <<Y, M, is_leap>>
label_from_true_month(me, n) ==
    LET x      == mstar_from_true_month(me.p, n) + me.p.M0
        M      == amod12(x)
        Y      == me.p.Y0 + ((x - M) \div 12)
        x_next == mstar_from_true_month(me.p, n + 1) + me.p.M0
        x_prev == mstar_from_true_month(me.p, n - 1) + me.p.M0
    IN  <<Y, M,
          IF x = x_next THEN me.leap_labeling = "first_is_leap"
          ELSE IF x = x_prev THEN me.leap_labeling = "second_is_leap"
          ELSE FALSE>>

\* methods of the day engine of a CalendarEngine (TraditionalDayEngine)
DayEngineAttrs ==
    {"p", "epoch_k", "mean_date", "true_date", "local_civil_date", "mean_sun",
     "true_sun", "get_x_from_t2000"}

\* api.new_year_day, from the engine _reg().get(engine) returned on; the last
\* step is eng.day.end_jd(30, n_last) + 1
new_year_day(obj, Y) ==
    LET me == engine_month(obj)
        last == IF me.leap_labeling = "first_is_leap"
                THEN <<Y - 1, 12, FALSE>>
                ELSE label_from_true_month(me, true_month(me, Y, 1, FALSE).n - 1)
        n_last == true_month(me, last[1], last[2], last[3])
    IN  IF "leap_labeling" \notin MonthParamFields[me.class]
        THEN Raise("AttributeError")
        ELSE IF "true_month" \notin MonthEngineAttrs[me.class]
        THEN Raise("AttributeError")
        ELSE IF ~n_last.ok THEN n_last
        ELSE IF "end_jd" \notin DayEngineAttrs
        THEN Raise("AttributeError")
        ELSE [ok |-> TRUE, Y |-> Y,
              prev_month |-> [Y |-> last[1], M |-> last[2], is_leap_month |-> last[3]],
              n_last |-> n_last.n]

\* api.set_registry
SetRegistry ==
    /\ Idle
    /\ \E r \in Registries :
        /\ registry' = [init |-> TRUE, engines |-> r]
        /\ args' = [reg |-> r]
    /\ op' = "set_registry"
    /\ ret' = [ok |-> TRUE]
    /\ UNCHANGED <<engine, mp>>

\* api_init: set_registry(build_registry())
ApiInitImport ==
    /\ Idle
    /\ op' = "api_init"
    /\ args' = <<>>
    /\ ret' = build_registry
    /\ registry' = IF build_registry.ok
                   THEN [init |-> TRUE, engines |-> build_registry.engines]
                   ELSE registry
    /\ UNCHANGED <<engine, mp>>

\* api.list_engines
ListEngines ==
    Call("list_engines", [before |-> registry],
         IF reg(registry).ok
         THEN [ok |-> TRUE, names |-> sorted_names(DOMAIN reg(registry).engines)]
         ELSE reg(registry))

\* api.engine_info, day_info, to_gregorian, explain: _reg().get(engine).<method>
EngineCall ==
    /\ Idle
    /\ \E api \in {"engine_info", "day_info", "to_gregorian", "explain"}, name \in ApiNames :
           Call(api, [engine |-> name, before |-> registry],
                IF reg(registry).ok
                THEN registry_get(reg(registry).engines, name)
                ELSE reg(registry))

\* api.register_engine
RegisterEngine ==
    /\ Idle
    /\ \E name \in ApiNames, eng \in EngineObjects, overwrite \in BOOLEAN :
        LET r == IF reg(registry).ok
                 THEN registry_register(reg(registry).engines, name, eng, overwrite)
                 ELSE reg(registry)
        IN  /\ args' = [name |-> name, engine |-> eng, overwrite |-> overwrite,
                        before |-> registry]
            /\ ret' = IF r.ok THEN [ok |-> TRUE] ELSE r
            /\ registry' = IF r.ok THEN [init |-> TRUE, engines |-> r.engines]
                           ELSE registry
    /\ op' = "register_engine"
    /\ UNCHANGED <<engine, mp>>

\* years asked of months_in_year and new_year_day
ApiYears == (DateYear - YearSpan) .. (DateYear + YearSpan)

\* api.months_in_year
MonthsInYear ==
    /\ Idle
    /\ \E name \in ApiNames, Y \in ApiYears :
           Call("months_in_year", [engine |-> name, Y |-> Y, before |-> registry],
                IF ~reg(registry).ok THEN reg(registry)
                ELSE Let(registry_get(reg(registry).engines, name), LAMBDA g :
                         IF ~g.ok THEN g ELSE months_in_year(g.engine, Y)))

\* api.new_year_day
NewYearDay ==
    /\ Idle
    /\ \E name \in ApiNames, Y \in ApiYears :
           Call("new_year_day", [engine |-> name, Y |-> Y, before |-> registry],
                IF ~reg(registry).ok THEN reg(registry)
                ELSE Let(registry_get(reg(registry).engines, name), LAMBDA g :
                         IF ~g.ok THEN g ELSE new_year_day(g.engine, Y)))

ApiInit ==
    /\ engine = "reform-l1"
    /\ mp = REFORM_MONTH
    /\ op = "idle"
    /\ args = <<>>
    /\ ret = <<>>
    /\ registry = [init |-> FALSE]

ApiNext ==
    \/ SetRegistry
    \/ ApiInitImport
    \/ ListEngines
    \/ EngineCall
    \/ RegisterEngine
    \/ MonthsInYear
    \/ NewYearDay
    \/ Done

ApiSpec == ApiInit /\ [][ApiNext]_vars

-----------------------------------------------------------------------------
(* Round trips (tests/round_trip.py)                                       *)

\* the round trip has been made with the given policy
RoundTripDone(policy) == op = "to_gregorian" /\ args.policy = policy

\* C1: for every engine and Gregorian date d, to_gregorian on the label
\* day_info(d) returned, with policy "occ", is exactly the list [d]
C1_RoundTripOcc ==
    RoundTripDone("occ") => (ret.ok /\ ret.dates = <<args.d0>>)

\* C2: for every engine and Gregorian date d, d is a member of the list
\* to_gregorian returns with policy "all" on the label day_info(d) returned
C2_RoundTripAll ==
    RoundTripDone("all") =>
        (ret.ok /\ \E i \in 1 .. Len(ret.dates) : ret.dates[i] = args.d0)

-----------------------------------------------------------------------------
(* Month layer                                                             *)

\* get_lunations has been called on the label get_month_info(n) returned
ResolvedBack == op = "get_lunations" /\ args.src = "lunation"

\* the lunation comes back at the position its leap_state names
InverseHolds ==
    CASE args.leap_state = 0 -> ret = <<args.n>>
      [] args.leap_state = 1 -> Len(ret) = 2 /\ ret[1] = args.n
      [] args.leap_state = 2 -> Len(ret) = 2 /\ ret[2] = args.n

\* C3 as stated: for every lunation n and every parameter set accepted by
\* the constructor (0 < P < Q, 0 <= tau < P, 1 <= M0 <= 12), get_lunations on
\* the label of n returns n at the position leap_state names
C3_MonthInverseAnyRatio == ResolvedBack => InverseHolds

\* C3 amended: the same identity for every lunation n and every accepted
\* parameter set with Q <= 2P (at most two lunations share a label)
C3_MonthInverse == (ResolvedBack /\ mp.Q <= 2 * mp.P) => InverseHolds

\* a second leap lunation resolved back to itself
C3_Witness ==
    /\ ResolvedBack
    /\ mp.Q <= 2 * mp.P
    /\ args.leap_state = 2
    /\ Len(ret) = 2
    /\ ret[2] = args.n

\* C4: for every accepted parameter set and label (Y, M), is_trigger_label(Y, M)
\* is true exactly when intercalation_index(Y, M) is in trigger_set
C4_TriggerEquivalence ==
    op = "is_trigger_label" =>
        (ret <=> intercalation_index(mp, args.year, args.month) \in trigger_set(mp))

\* a trigger label found under a non-zero tau
C4_Witness ==
    /\ op = "is_trigger_label"
    /\ ret
    /\ mp.tau > 0
    /\ intercalation_index(mp, args.year, args.month) \in trigger_set(mp)

\* years in a cadence window
WindowYears == 100

\* number of trigger labels among the labels of WindowYears years from year Y
TriggerCount(p, Y) ==
    Cardinality({lab \in (Y .. (Y + WindowYears - 1)) \X (1 .. 12) :
                    is_trigger_label(p, lab[1], lab[2])})

\* floor(ell * months / P) for the 12 * WindowYears labels of a window
CadenceFloor(p) == (ell(p) * 12 * WindowYears) \div p.P

\* a call that names the first label of a window of a shipped parameter set
WindowStart == op = "is_trigger_label" /\ args.month = 1 /\ mp \in ShippedMonthParams

\* C5: for every shipped (P, Q) and every window of 100 consecutive years, the
\* number of trigger labels in the window is within 1 of floor(ell * months / P)
C5_LeapCadence ==
    WindowStart =>
        Let(TriggerCount(mp, args.year) - CadenceFloor(mp), LAMBDA diff :
            (0 - 1) <= diff /\ diff <= 1)

\* a window of the reform ratio whose count is one above the floor
C5_Witness ==
    /\ WindowStart
    /\ mp.P = P_NEW
    /\ TriggerCount(mp, args.year) = CadenceFloor(mp) + 1

-----------------------------------------------------------------------------
(* Civil month and day layer                                               *)

\* a civil-month map has been built
MonthBuilt == op = "_build_civil_month"

\* the day labels of a civil-month map in increasing JDN order
Labels(m) == [i \in 1 .. Len(m.days) |-> m.days[i].day]

\* C6: for every engine and lunation the civil-month map has exactly 29 or
\* exactly 30 JDN keys
C6_CivilMonthSize == MonthBuilt => Cardinality(MapKeys(ret)) \in {29, 30}

\* a lunation of 29 civil days
C6_Witness == MonthBuilt /\ Cardinality(MapKeys(ret)) = 29

\* labels lie in 1..30 and never decrease along the map
LabelsMonotone(lab) ==
    /\ \A i \in DOMAIN lab : lab[i] \in 1 .. 30
    /\ \A i \in DOMAIN lab : i > 1 => lab[i - 1] <= lab[i]

\* civil days that repeat the label of the day before
Duplicated(lab) == {i \in DOMAIN lab : i > 1 /\ lab[i] = lab[i - 1]}

\* pairs of consecutive civil days whose labels differ by more than 1
Skipping(lab) == {i \in DOMAIN lab : i > 1 /\ lab[i] - lab[i - 1] > 1}

\* C7 as stated: labels lie in 1..30 and never decrease, at most one day
\* repeats the label before it and at most one consecutive pair skips a label
C7_OneDuplicateOneSkip ==
    MonthBuilt =>
        Let(Labels(ret), LAMBDA lab :
            /\ LabelsMonotone(lab)
            /\ Cardinality(Duplicated(lab)) <= 1
            /\ Cardinality(Skipping(lab)) <= 1)

\* C7 amended: labels lie in 1..30 and never decrease, at most two days
\* repeat the label before them and at most two consecutive pairs skip a label
C7_LabelStructure ==
    MonthBuilt =>
        Let(Labels(ret), LAMBDA lab :
            /\ LabelsMonotone(lab)
            /\ Cardinality(Duplicated(lab)) <= 2
            /\ Cardinality(Skipping(lab)) <= 2)

\* a lunation with two skipped labels
C7_Witness ==
    /\ MonthBuilt
    /\ LabelsMonotone(Labels(ret))
    /\ Cardinality(Skipping(Labels(ret))) = 2

\* the JDNs on which the tithis 1..30 of the lunation just built end
BuiltHits == Let(Eng, LAMBDA e : [d \in 1 .. 30 |-> hit_jdn(e, args.n_d, d)])

\* the entry at the day tithi d ends carries d unless a later tithi ends there
CarriesLabel(m, hits, d) ==
    \/ MapGet(m, hits[d]).day = d
    \/ \E d2 \in (d + 1) .. 30 : hits[d2] = hits[d]

C9_MonotoneTime ==
    op = "local_civil_date" =>
        Let(Eng, LAMBDA e : MLt(ret, local_civil_date(e.day, args.x + 1)))

\* the step from tithi 30 of a lunation to tithi 1 of the next
C9_Witness ==
    /\ op = "local_civil_date"
    /\ args.x % 30 = 0
    /\ Let(Eng, LAMBDA e : MLt(ret, local_civil_date(e.day, args.x + 1)))

-----------------------------------------------------------------------------
(* Rational lane: civil alignment                                           *)

\* the dawn fraction of the sunrise model when it is handed the location and
\* the true sun in the order its signature declares
DeclaredDawn ==
    sunrise_utc_fraction(RATIONAL_SUNRISE[engine], LOC_LHASA,
                         PyFraction(args.lambda_sun), PyFraction(args.lambda_sun),
                         args.H0)

\* t_utc - dawn_utc_exact for that dawn fraction
DeclaredOffset ==
    assemble_true_date(j_civil_of(LOC_LHASA, args.t_utc), args.t_utc,
                       DeclaredDawn.value).offset

\* C10: for every boundary time and for both sunrise models, local_true_date
\* returns j_civil + (t_utc - dawn_utc_exact) with floor equal to
\* j_civil = floor(t_utc + lon_turn + 1/4); equivalently the offset
\* t_utc - dawn_utc_exact lies in [0, 1).
C10_CivilAlignment ==
    op = "local_true_date" =>
        /\ ret.ok
        /\ MFloor(ret.date) = j_civil_of(LOC_LHASA, args.t_utc)
        /\ MFloor(DeclaredOffset) = 0

-----------------------------------------------------------------------------
(* Error handling of the label-to-date requests                             *)

\* the civil days of the month of label t that carry tithi label t.tithi
LabelMatches(t) ==
    Let(Eng, LAMBDA e :
        Let(build_civil_month(e, select_lunation(e, get_lunations(e.month, t.tib_year, t.month_no),
                                                 t.is_leap_month) + e.delta_k),
            LAMBDA m : {i \in 1 .. Len(m.days) : m.days[i].day = t.tithi}))

\* C11: to_gregorian(t, policy = "raise") returns a one-element list if and
\* only if exactly one civil day of the month of t carries the label t.tithi;
\* with zero or two matches the call fails with an error
C11_PolicyRaise ==
    RoundTripDone("raise") =>
        ((ret.ok /\ Len(ret.dates) = 1) <=> Cardinality(LabelMatches(args.t)) = 1)

\* to_jdn has been called with a label in range: month 1..12, day 1..30
ToJdnInRange == op = "to_jdn" /\ args.month \in 1 .. 12 /\ args.day \in 1 .. 30

\* C12: to_jdn(Y, M, is_leap = True, day) fails if and only if (Y, M) is not a
\* trigger label, that is get_lunations(Y, M) has one element; with
\* is_leap = False it never fails for day in 1..30
C12_LeapOfNonTrigger ==
    ToJdnInRange =>
        /\ ~ret.ok <=> (args.is_leap /\ ~is_trigger_label(mp, args.year, args.month))
        /\ ~is_trigger_label(mp, args.year, args.month)
               <=> Len(get_lunations(mp, args.year, args.month)) = 1
        /\ ret.ok => ret.jdn \in Int

\* the leap instance of a label that is no trigger has been rejected
C12_Witness == ToJdnInRange /\ args.is_leap /\ ~ret.ok

\* C13: a label-to-date request with month_no outside 1..12 or with day outside
\* 1..30 fails with an error and returns no date
C13_OutOfRangeRejected ==
    (op = "to_jdn" /\ (args.month \notin 1 .. 12 \/ args.day \notin 1 .. 30)) => ~ret.ok

-----------------------------------------------------------------------------
(* Registry and public API                                                  *)

\* the API calls that look an engine up by name
EngineLookups == {"engine_info", "day_info", "to_gregorian", "explain"}

\* the API calls that go through _reg()
RegistryCalls == EngineLookups \cup {"list_engines", "register_engine"}

\* C14: a lookup of a name that is not registered fails with an error that
\* lists the sorted registered names, and leaves the registry as it was
C14_UnknownEngine ==
    (op \in EngineLookups /\ args.before.init
        /\ args.engine \notin DOMAIN args.before.engines) =>
        /\ ~ret.ok
        /\ ret.err = "KeyError"
        /\ ret.available = sorted_names(DOMAIN args.before.engines)
        /\ Len(ret.available) = Cardinality(DOMAIN args.before.engines)
        /\ registry = args.before

\* an unregistered name has been looked up in a registry of two engines
C14_Witness ==
    /\ op \in EngineLookups
    /\ args.before.init
    /\ args.engine \notin DOMAIN args.before.engines
    /\ ~ret.ok
    /\ Len(ret.available) = 2

\* C15: every API call made before the first set_registry fails with the
\* 'registry not initialized' error and no call made after it does; the
\* registry is set by set_registry only and is never unset
C15_NotInitialized ==
    /\ [](op \in RegistryCalls =>
            ((~ret.ok /\ ret.err = "RuntimeError") <=> ~args.before.init))
    /\ [][/\ registry.init => registry'.init
          /\ (~registry.init /\ registry'.init) => op' \in {"set_registry", "api_init"}
          /\ op' \in RegistryCalls => args'.before = registry]_vars

\* a call made before set_registry has failed
C15_Witness ==
    op \in RegistryCalls /\ ~args.before.init /\ ~ret.ok /\ ret.err = "RuntimeError"

\* C16: build_registry materializes every spec of ALL_SPECS and afterwards
\* list_engines returns exactly the nine shipped names
C16_ShippedEngineSet ==
    op = "api_init" =>
        /\ ret.ok
        /\ registry.init
        /\ sorted_names(DOMAIN registry.engines) =
             <<"bhutan", "karana", "mongol", "phugpa", "reform-l1", "reform-l2",
               "reform-l3", "reform-l4", "tsurphu">>

\* C17 as stated: once the registry is set, no API call changes the
\* registered names or the engine a name is bound to
C17_ReadOnly ==
    [][(registry.init /\ op' \notin {"set_registry", "api_init"}) =>
            registry' = registry]_vars

\* C17: once the registry is set, no API call other than register_engine
\* changes it; register_engine succeeds only for an unregistered name or with
\* overwrite, and then binds that name alone
C17_ReadOnlyExceptRegister ==
    [][(registry.init /\ op' \notin {"set_registry", "api_init"}) =>
            IF op' = "register_engine" /\ ret'.ok
            THEN /\ args'.overwrite \/ args'.name \notin DOMAIN registry.engines
                 /\ DOMAIN registry'.engines = DOMAIN registry.engines \cup {args'.name}
                 /\ registry'.engines[args'.name] = args'.engine
                 /\ \A n \in DOMAIN registry.engines \ {args'.name} :
                        registry'.engines[n] = registry.engines[n]
            ELSE registry' = registry]_vars

\* register_engine has rebound a registered name with overwrite
C17_Witness ==
    /\ op = "register_engine"
    /\ ret.ok
    /\ args.before.init
    /\ args.name \in DOMAIN args.before.engines
    /\ registry.engines[args.name] # args.before.engines[args.name]

-----------------------------------------------------------------------------
(* OddPeriodicTable                                                         *)

\* C18: for every quarter table with quarter[0] = 0 and every rational turn
\* theta, eval_turn(theta + 1) = eval_turn(theta), eval_turn(-theta) =
\* -eval_turn(theta) and eval_turn(1/2 - theta) = eval_turn(theta), exactly
C18_TableSymmetries ==
    (op = "eval_turn" /\ Q0(args.quarter, 0) = 0) =>
        /\ MEq(eval_turn(args.quarter, MAdd(args.theta, MInt(1))), ret)
        /\ MEq(eval_turn(args.quarter, MNeg(args.theta)), MNeg(ret))
        /\ MEq(eval_turn(args.quarter, MSub(MFrac(1, 2), args.theta)), ret)

\* eval_turn has been taken at a negative turn strictly between two nodes of
\* the shipped moon table, with a nonzero value
C18_Witness ==
    /\ op = "eval_turn"
    /\ args.quarter = MOON_TAB_QUARTER
    /\ MLtInt(args.theta, 0)
    /\ MScale(28, args.theta).p # 0
    /\ ~MEq(ret, MInt(0))

\* asin_turn(y) lies in [-1/4, 1/4] and eval_turn takes it back to y
AsinInverts ==
    /\ MLe(MFrac(0 - 1, 4), ret)
    /\ MLe(ret, MFrac(1, 4))
    /\ MEq(eval_turn(args.quarter, ret), args.y)

\* C19 as stated: for every strictly increasing quarter table and every y
\* with -peak <= y <= peak, asin_turn(y) lies in [-1/4, 1/4] and
\* eval_turn(asin_turn(y)) = y
C19_AsinInvertsAnyTable == op = "asin_turn" => AsinInverts

\* C19: the same for every strictly increasing table with quarter[0] = 0
C19_AsinInverts ==
    (op = "asin_turn" /\ Q0(args.quarter, 0) = 0) => AsinInverts

\* asin_turn has been taken at a negative y strictly between two samples of
\* the shipped sine table
C19_Witness ==
    /\ op = "asin_turn"
    /\ args.quarter = SINE_TAB_QUARTER
    /\ MLtInt(args.y, 0)
    /\ ret.p # 0
    /\ MScale(28, ret).p # 0

-----------------------------------------------------------------------------
(* Gregorian date <-> JDN                                                   *)

\* a Gregorian date of the years 1..9999
ValidDate(d) ==
    /\ d[1] \in 1 .. 9999
    /\ d[2] \in 1 .. 12
    /\ d[3] \in 1 .. DaysInMonth(d[1], d[2])

\* C20: for every JDN j in 1721426..5373484, date_to_jdn(jdn_to_date(j)) = j,
\* and for every Gregorian date d of the years 1..9999,
\* jdn_to_date(date_to_jdn(d)) = d; the same for core.time.to_jdn / from_jdn
C20_GregorianInverse ==
    /\ op = "jdn_round_trip" => (ValidDate(ret.date) /\ ret.jdn = args.jdn)
    /\ op = "date_round_trip" =>
          (ret.jdn \in FirstJdn .. LastJdn /\ ret.date = args.date)

\* 29 February 2000 has made the round trip through its JDN
C20_Witness ==
    /\ op = "date_round_trip"
    /\ args.date = <<2000, 2, 29>>
    /\ ret.jdn = 2451604
    /\ ret.date = args.date

-----------------------------------------------------------------------------
(* day_info: the duplicated-day status                                      *)

\* the civil-month map from_jdn settles on for jdn
CivilMonthOf(e, jdn) ==
    LET approx_t2000 == MAdd(MInt(jdn - JD_J2000), MFrac(1, 2))
    IN  Let(get_x_from_t2000(e.day, approx_t2000) \div 30, LAMBDA n_d0 :
        Let(build_civil_month(e, n_d0), LAMBDA map0 :
        Let(resolve_n_d(map0, n_d0, jdn), LAMBDA n_d :
            IF n_d = n_d0 THEN map0 ELSE build_civil_month(e, n_d))))

\* jdn is the later of two consecutive civil days of one lunation that show
\* the same tithi label
LaterOfSameLabel(m, jdn) ==
    /\ jdn \in MapKeys(m)
    /\ jdn - 1 \in MapKeys(m)
    /\ MapGet(m, jdn).day = MapGet(m, jdn - 1).day

\* C21: for every engine and every Gregorian date d, day_info(d) has status
\* "duplicated" and occ 2 exactly when d is the later of two consecutive
\* civil days of the same lunation showing the same tithi label, and status
\* "normal" and occ 1 otherwise, the first two civil days of a lunation
\* included
C21_DuplicatedStatus ==
    (op = "day_info" /\ ret.ok) =>
        Let(<<CivilMonthOf(Eng, core_to_jdn(args.d)), core_to_jdn(args.d)>>, LAMBDA v :
            IF LaterOfSameLabel(v[1], v[2])
            THEN ret.status = "duplicated" /\ ret.tibetan.occ = 2
            ELSE ret.status = "normal" /\ ret.tibetan.occ = 1)

-----------------------------------------------------------------------------
(* months_in_year                                                           *)

\* months_in_year has been answered by an engine with an arithmetic month layer
ArithmeticMonthsCall ==
    /\ op = "months_in_year"
    /\ args.before.init
    /\ args.engine \in DOMAIN args.before.engines
    /\ engine_month(args.before.engines[args.engine]).class = "ArithmeticMonthEngine"

\* the records of months_in_year: 12 or 13 of them, a leap record exactly at
\* the trigger labels, two records (one leap, one not) at a trigger label and
\* one at every other label
MonthsShape(p, Y, records) ==
    LET at(M) == {i \in DOMAIN records : records[i].M = M}
    IN  /\ Len(records) \in {12, 13}
        /\ \A M \in 1 .. 12 :
            /\ (\E i \in at(M) : records[i].is_leap_month) <=> is_trigger_label(p, Y, M)
            /\ IF is_trigger_label(p, Y, M)
               THEN /\ Cardinality(at(M)) = 2
                    /\ Cardinality({i \in at(M) : records[i].is_leap_month}) = 1
               ELSE Cardinality(at(M)) = 1

\* C22: for every shipped arithmetic engine and every year Y, months_in_year(Y)
\* returns 12 or 13 records, with a leap record for (Y, M) exactly when (Y, M)
\* is a trigger label, two records for a trigger label and one for any other
C22_MonthsInYearShape ==
    ArithmeticMonthsCall =>
        /\ ret.ok
        /\ MonthsShape(engine_month(args.before.engines[args.engine]).p, args.Y, ret.records)

-----------------------------------------------------------------------------
(* get_x_from_t2000                                                         *)

\* tithi x covers the time t: true_date(x - 1) <= t < true_date(x)
Covers(p, x, t) == MLe(true_date(p, x - 1), t) /\ MLt(t, true_date(p, x))

\* how far around the answer the uniqueness is looked at
CoverSpan == 3

\* C23: for every traditional engine and every rational time t2000,
\* get_x_from_t2000(t2000) terminates and returns the only integer x with
\* true_date(x - 1) <= t2000 < true_date(x)
C23_InverseLookup ==
    op = "get_x_from_t2000" =>
        Let(<<Eng.day, args.t2000, ret>>, LAMBDA v :
            /\ Covers(v[1], v[3], v[2])
            /\ \A y \in (v[3] - CoverSpan) .. (v[3] + CoverSpan) :
                   Covers(v[1], y, v[2]) => y = v[3])

\* get_x_from_t2000 has returned a tithi other than its mean-rate estimate
C23_Witness ==
    /\ op = "get_x_from_t2000"
    /\ ret # get_x_from_t2000_estimate(Eng.day, args.t2000)
    /\ Covers(Eng.day, ret, args.t2000)

-----------------------------------------------------------------------------
(* picard_solve                                                             *)

\* the recurrence t_0 = (x0 - A) / B, t_(j+1) = t_0 - C(t_j) / B
RECURSIVE PicardIterate(_, _, _)
PicardIterate(series, x0, j) ==
    IF j = 0 THEN MDiv(MSub(x0, series.A), series.B)
    ELSE Let(PicardIterate(series, x0, j - 1), LAMBDA t :
             MSub(MDiv(MSub(x0, series.A), series.B),
                  MDiv(correction_sum(series.terms, t, 1, MInt(0)), series.B)))

\* C24: for every series (A, B # 0, terms), every target x0 and every k >= 1,
\* picard_solve(x0, iterations = k) evaluates the correction sum exactly k
\* times and returns t_k of the recurrence t_0 = (x0 - A) / B,
\* t_(j+1) = t_0 - C(t_j) / B; with no terms the result is (x0 - A) / B
C24_FixedCountPicard ==
    (op = "picard_solve" /\ args.iterations >= 1) =>
        /\ ret.ok
        /\ ret.evals = ret.done
        /\ ret.done <= args.iterations
        /\ (ret.pc = "return") <=> (ret.done = args.iterations)
        /\ MEq(ret.t, PicardIterate(args.series, args.x0, ret.done))
        /\ args.series.terms = <<>> =>
               MEq(ret.t, MDiv(MSub(args.x0, args.series.A), args.series.B))

\* picard_solve has returned after MaxIterations passes over two terms, and
\* its iterates differ from the starting point and from one another
C24_Witness ==
    /\ op = "picard_solve"
    /\ ret.ok
    /\ ret.pc = "return"
    /\ args.iterations = MaxIterations
    /\ Len(args.series.terms) = 2
    /\ ~MEq(ret.t, ret.t0)
    /\ ~MEq(ret.t, PicardIterate(args.series, args.x0, MaxIterations - 1))

-----------------------------------------------------------------------------
(* Delta-T                                                                  *)

\* a + b*u + c*u^2 with u = (t / 365.25 + 2000 - y0) / 100
QuadraticDeltaT(a, b, c, y0, t) ==
    Let(MDiv(MSub(MAdd(MDiv(t, MFrac(1461, 4)), MInt(2000)), y0), MInt(100)),
        LAMBDA u : MAdd(a, MAdd(MMul(b, u), MMul(c, MMul(u, u)))))

\* C25: for every QuadraticDeltaTRationalDef(a, b, c, y0) and every rational
\* time t, the Delta-T model RationalDayEngineNew binds from the definition
\* returns a + b*u + c*u^2 with u = (t / 365.25 + 2000 - y0) / 100, for the
\* definition's own y0
C25_QuadraticReferenceYear ==
    (op = "delta_t_seconds" /\ args.def.kind = "quadratic") =>
        MEq(ret, QuadraticDeltaT(args.def.a, args.def.b, args.def.c, args.def.y0, args.t))

-----------------------------------------------------------------------------
(* The weekday attribute                                                    *)

\* day of the week of a Gregorian date by Zeller's congruence, counted from
\* Monday = 0 to Sunday = 6
DayOfWeek(d) ==
    LET y == IF d[2] < 3 THEN d[1] - 1 ELSE d[1]
        m == IF d[2] < 3 THEN d[2] + 12 ELSE d[2]
        K == y % 100
        J == y \div 100
        h == (d[3] + ((13 * (m + 1)) \div 5) + K + (K \div 4) + (J \div 4) + 5 * J) % 7
    IN  (h + 5) % 7

\* C26: for every Gregorian date d, the "weekday" attribute computed for
\* day_info(d) is 0 when d is a Monday, 1 for a Tuesday, ..., 6 for a Sunday
C26_WeekdayConvention ==
    (op = "compute_attributes" /\ args.name = "weekday") =>
        /\ ret.ok
        /\ ret.attributes.weekday = DayOfWeek(args.info.civil_date)

\* what the code computes instead: 0 on a Sunday, 1 on a Monday, ..., 6 on a
\* Saturday
WeekdayFromSunday ==
    (op = "compute_attributes" /\ args.name = "weekday") =>
        /\ ret.ok
        /\ ret.attributes.weekday = (DayOfWeek(args.info.civil_date) + 1) % 7

-----------------------------------------------------------------------------
(* Tithi 30 and the coordinate splitter                                     *)

\* the lunation n and the tithi d in 1..30 of the coordinate x = 30n + d
LunationOf(x) == (x - 1) \div 30
TithiOf(x) == x - 30 * LunationOf(x)

\* C27: for every traditional engine, every lunation n and every tithi d in
\* 1..30, true_date(30n + d) + J2000_JD equals the two-argument series value
\* m0 + m1*n + m2*d + (1/60) MoonTab(a0 + a1*n + a2*d)
\* - (1/60) SunTab(r0 + r1*n + r2*d), d = 30 included
C27_TithiThirtyInItsLunation ==
    op = "local_civil_date" =>
        MEq(MAdd(ret, MInt(JD_J2000)),
            SeriesDN_eval(Eng.day, TithiOf(args.x), LunationOf(args.x)))

\* the same for the tithis 1..29, which the splitter leaves in their lunation
TithisBeforeThirty ==
    (op = "local_civil_date" /\ TithiOf(args.x) # 30) =>
        MEq(MAdd(ret, MInt(JD_J2000)),
            SeriesDN_eval(Eng.day, TithiOf(args.x), LunationOf(args.x)))

-----------------------------------------------------------------------------
(* from_jdn: the month estimate and its correction                          *)

\* the JDN handed to from_jdn by the call in progress
AskedJdn == IF op = "day_info" THEN core_to_jdn(args.d) ELSE args.jdn

\* the lunation estimate n_d = get_x_from_t2000(jdn - J2000_JD + 0.5) // 30
EstimatedLunation(e, jdn) ==
    get_x_from_t2000(e.day, MAdd(MInt(jdn - JD_J2000), MFrac(1, 2))) \div 30

\* C28: for every engine and every integer JDN, after the estimate
\* n_d = get_x_from_t2000(jdn - J2000_JD + 0.5) // 30 and at most one
\* correction of n_d by -1 or +1, jdn is a key of the civil-month map built
\* for n_d, so the final map lookup never fails
C28_FromJdnTotal == op \in {"day_info", "from_jdn"} => ret.ok

\* from_jdn has answered for a JDN outside the civil month of its estimate
C28_Witness ==
    /\ op \in {"day_info", "from_jdn"}
    /\ ret.ok
    /\ AskedJdn \notin MapKeys(build_civil_month(Eng, EstimatedLunation(Eng, AskedJdn)))

-----------------------------------------------------------------------------
(* Label round trip: from_jdn after to_jdn                                  *)

\* the day-layer lunation of the label to_jdn was asked
LabelLunation(e, l) ==
    select_lunation(e, get_lunations(e.month, l.year, l.month), l.is_leap) + e.delta_k

\* no later tithi ends on the civil day on which tithi l.day of the label ends
NotSkipped(e, l, jdn) ==
    Let(LabelLunation(e, l), LAMBDA n_d :
        \A d \in (l.day + 1) .. 30 : hit_jdn(e, n_d, d) # jdn)

\* from_jdn returned the label to_jdn was asked, not repeated
LabelReturned ==
    /\ ret.ok
    /\ ret.year = args.label.year
    /\ ret.month = args.label.month
    /\ ret.is_leap = args.label.is_leap
    /\ ret.day = args.label.day
    /\ ret.repeated = FALSE

\* C29: for every engine, every (Y, M, is_leap) accepted by to_jdn and every
\* tithi d in 1..30 that is not skipped (no later tithi ends on the same civil
\* day as d), from_jdn(to_jdn(Y, M, is_leap, d)) returns year Y, month M,
\* is_leap, day d and repeated = false, for both lunations of a trigger pair
C29_LabelRoundTrip ==
    (op = "from_jdn" /\ NotSkipped(Eng, args.label, args.jdn)) => LabelReturned

-----------------------------------------------------------------------------
(* new_year_day                                                             *)

\* new_year_day has been answered by an engine with an arithmetic month layer
ArithmeticNewYearCall ==
    /\ op = "new_year_day"
    /\ args.before.init
    /\ args.engine \in DOMAIN args.before.engines
    /\ engine_month(args.before.engines[args.engine]).class = "ArithmeticMonthEngine"

\* C30: for every arithmetic engine and every year Y, the lunation n_last that
\* new_year_day(Y) takes as the last month of the preceding year satisfies
\* n_last + 1 = first_lunation(Y) = get_lunations(Y, 1)[0]
C30_NewYearAnchor ==
    ArithmeticNewYearCall =>
        Let(engine_month(args.before.engines[args.engine]).p, LAMBDA p :
            /\ ret.ok
            /\ ret.n_last + 1 = first_lunation(p, args.Y)
            /\ first_lunation(p, args.Y) = get_lunations(p, args.Y, 1)[1])

====
